---- MODULE Spec2Model ----
(***************************************************************************)
(* Single-device authentication: the device registry of each user, the     *)
(* device change requests, and the HTTP handlers that read and write them. *)
(*                                                                         *)
(* Every handler is an async function: between two awaited database        *)
(* operations other handlers may run.  A handler invocation therefore      *)
(* occupies a slot of `procs` and advances one database operation at a     *)
(* time; the synchronous code that follows a read runs in the same step    *)
(* as the read.  Documents are saved as Mongoose saves them: only the      *)
(* modified paths are written, a $push appends to the stored array and     *)
(* increments __v, an array assigned as a whole is $set under the          *)
(* condition that __v is unchanged, a change of one array element is       *)
(* written under the same condition.  The number __v is not kept: a slot   *)
(* records whether __v has been incremented since its document was read.   *)
(* new Date() is any value of Times.                                       *)
(***************************************************************************)
EXTENDS Integers, Sequences, FiniteSets, TLC

VARIABLES users, requests, tokens, procs, res

vars == <<users, requests, tokens, procs, res>>

----------------------------------------------------------------------------
(* Bounds of the model *)

MaxProcs == 2
MaxRequests == 1
MaxDevices == 3
MaxTime == 0
NumAgents == 2
NumIPs == 1
NumUsers == 1
SerialMaxRequests == 2
SerialMaxTime == 1

Procs == 1..MaxProcs
Times == 0..MaxTime

AgentNames == <<"ua1", "ua2", "ua3", "ua4">>
IPNames == <<"10.0.0.1", "10.0.0.2">>
UserNames == <<"u1", "u2">>

UserAgents == {AgentNames[i] : i \in 1..NumAgents}
IPs == {IPNames[i] : i \in 1..NumIPs}
AdminId == "admin"
UserIds == {UserNames[i] : i \in 1..NumUsers} \cup {AdminId}

----------------------------------------------------------------------------
(* JavaScript values *)

\* null, the default of currentDeviceId (device ids are tuples)
Null == <<>>

\* the value of a property an object does not have; equal to no string a
\* header or a stored field holds
Undefined == "<undefined>"

\* if (user.currentDeviceId)
Truthy(id) == id # Null

\* a || b on strings: an absent header and the empty string are both falsy
Or(a, b) == IF a # "" THEN a ELSE b

----------------------------------------------------------------------------
(* HTTP requests: the headers the handlers read, "" when absent, and the   *)
(* peer address.                                                           *)

Http(ua, addr) ==
  [userAgent |-> ua, secChUaPlatform |-> "", xPlatform |-> "",
   acceptLanguage |-> "", xLanguage |-> "", xLanguages |-> "",
   xScreenResolution |-> "", xColorDepth |-> "", xPixelRatio |-> "",
   xHardwareConcurrency |-> "", xMaxTouchPoints |-> "", xTimezone |-> "",
   ip |-> addr]

HttpRequests == {Http(ua, addr) : ua \in UserAgents, addr \in IPs}

\* The browsers a user sends requests from: the administrator works from one
\* machine, every other user from any of the modelled browsers.
BrowsersOf(userId) ==
  IF userId = AdminId THEN {Http(AgentNames[1], IPNames[1])} ELSE HttpRequests

stableFingerprint(req) ==
  [userAgent |-> Or(req.userAgent, ""),
   platform |-> Or(req.secChUaPlatform, Or(req.xPlatform, "Unknown")),
   language |-> Or(req.acceptLanguage, Or(req.xLanguage, "en-US")),
   languages |-> Or(req.xLanguages, Or(req.acceptLanguage, "en-US")),
   screenRes |-> Or(req.xScreenResolution, "unknown"),
   colorDepth |-> Or(req.xColorDepth, "unknown"),
   pixelRatio |-> Or(req.xPixelRatio, "1"),
   hardwareConcurrency |-> Or(req.xHardwareConcurrency, "unknown"),
   maxTouchPoints |-> Or(req.xMaxTouchPoints, "0"),
   timezone |-> Or(req.xTimezone, "UTC")]

\* a device id computed from the peer address as well
generateDeviceIdWithAddress(userId, req) ==
  <<userId, stableFingerprint(req), req.ip>>

\* sha256 of `${userId}-${JSON.stringify(stableFingerprint)}`: the digest is
\* kept as the pair it is computed from (no collisions)
generateDeviceId(userId, req) == <<userId, stableFingerprint(req)>>

\* the deviceInfo of registerDevice and of request-device-change
\* a deviceInfo that keeps every stable attribute of the request
deviceInfoWithAttributes(req) ==
  [key \in DOMAIN stableFingerprint(req) \cup {"ipAddress"} |->
     IF key = "ipAddress" THEN req.ip ELSE stableFingerprint(req)[key]]

deviceInfoOf(req) ==
  [userAgent |-> Or(req.userAgent, ""),
   platform |-> Or(req.secChUaPlatform, "Unknown"),
   ipAddress |-> req.ip]

DeviceIdsOf(userId) == {generateDeviceId(userId, r) : r \in HttpRequests}

----------------------------------------------------------------------------
(* Documents *)

NewUser(role) ==
  [role |-> role, isActive |-> TRUE, registeredDevices |-> <<>>,
   currentDeviceId |-> Null]

DeviceRecord(deviceId, info, t) ==
  [deviceId |-> deviceId, deviceInfo |-> info, registeredAt |-> t, lastUsed |-> t]

DeviceIdSeq(devs) == [i \in 1..Len(devs) |-> devs[i].deviceId]

\* userSchema.methods.isDeviceRegistered
isDeviceRegistered(user, deviceId) ==
  \E i \in 1..Len(user.registeredDevices) :
     user.registeredDevices[i].deviceId = deviceId

\* userSchema.methods.isAdmin
isAdmin(user) == user.role = "admin"

\* a filter that keeps no record
FilterOut(devs, deviceId) == <<>>

RECURSIVE Filter(_, _)
\* registeredDevices.filter(device => device.deviceId !== deviceId)
Filter(devs, deviceId) ==
  IF devs = <<>> THEN <<>>
  ELSE IF Head(devs).deviceId # deviceId
       THEN <<Head(devs)>> \o Filter(Tail(devs), deviceId)
       ELSE Filter(Tail(devs), deviceId)

\* 'none', the currentDeviceId a request stores for a user that has none
None == <<"none">>

\* reviewedAt / reviewedBy / adminNotes of a request not yet reviewed
NoDate == 0 - 1
NoReviewer == ""

NewRequest(userId, currentDeviceId, newDeviceId, newDeviceInfo, reason) ==
  [currentDeviceId |-> currentDeviceId, user |-> userId,
   newDeviceId |-> newDeviceId, newDeviceInfo |-> newDeviceInfo,
   reason |-> reason, status |-> "pending", reviewedAt |-> NoDate,
   reviewedBy |-> NoReviewer, adminNotes |-> ""]

----------------------------------------------------------------------------
(* Similarity of fingerprints *)

stableKeys ==
  <<"userAgent", "platform", "language", "languages", "screenRes",
    "colorDepth", "pixelRatio", "hardwareConcurrency", "maxTouchPoints",
    "timezone">>

\* obj[key], undefined when the object has no such property
Prop(obj, key) == IF key \in DOMAIN obj THEN obj[key] ELSE Undefined

\* a comparison with the threshold excluded: similar above 80 only
compareStrictly(fingerprint1, fingerprint2) ==
  LET same(key) == Prop(fingerprint1, key) = Prop(fingerprint2, key)
      other(key) == ~same(key)
      matched == SelectSeq(stableKeys, same)
      missed == SelectSeq(stableKeys, other)
      matches == Len(matched)
      total == Len(stableKeys)
      similarity == (matches * 100) \div total
  IN [matches |-> matches,
      total |-> total,
      similarity |-> similarity,
      differences |-> [i \in 1..Len(missed) |->
                         [key |-> missed[i],
                          value1 |-> Prop(fingerprint1, missed[i]),
                          value2 |-> Prop(fingerprint2, missed[i])]],
      isSimilar |-> similarity > 80]

\* a comparison that skips the keys the second object does not have
compareKeysOfSecond(fingerprint1, fingerprint2) ==
  LET same(key) == \/ key \notin DOMAIN fingerprint2
                   \/ Prop(fingerprint1, key) = Prop(fingerprint2, key)
      other(key) == ~same(key)
      matched == SelectSeq(stableKeys, same)
      missed == SelectSeq(stableKeys, other)
      matches == Len(matched)
      total == Len(stableKeys)
      similarity == (matches * 100) \div total
  IN [matches |-> matches,
      total |-> total,
      similarity |-> similarity,
      differences |-> [i \in 1..Len(missed) |->
                         [key |-> missed[i],
                          value1 |-> Prop(fingerprint1, missed[i]),
                          value2 |-> Prop(fingerprint2, missed[i])]],
      isSimilar |-> similarity >= 80]

\* a comparison that lists a difference only for the keys both objects have
compareDefinedOnly(fingerprint1, fingerprint2) ==
  LET same(key) == Prop(fingerprint1, key) = Prop(fingerprint2, key)
      other(key) == /\ ~same(key)
                    /\ key \in DOMAIN fingerprint1
                    /\ key \in DOMAIN fingerprint2
      matched == SelectSeq(stableKeys, same)
      missed == SelectSeq(stableKeys, other)
      matches == Len(matched)
      total == Len(stableKeys)
      similarity == (matches * 100) \div total
  IN [matches |-> matches,
      total |-> total,
      similarity |-> similarity,
      differences |-> [i \in 1..Len(missed) |->
                         [key |-> missed[i],
                          value1 |-> Prop(fingerprint1, missed[i]),
                          value2 |-> Prop(fingerprint2, missed[i])]],
      isSimilar |-> similarity >= 80]

compareDeviceFingerprints(fingerprint1, fingerprint2) ==
  LET same(key) == Prop(fingerprint1, key) = Prop(fingerprint2, key)
      other(key) == ~same(key)
      matched == SelectSeq(stableKeys, same)
      missed == SelectSeq(stableKeys, other)
      matches == Len(matched)
      total == Len(stableKeys)
      similarity == (matches * 100) \div total
  IN [matches |-> matches,
      total |-> total,
      similarity |-> similarity,
      differences |-> [i \in 1..Len(missed) |->
                         [key |-> missed[i],
                          value1 |-> Prop(fingerprint1, missed[i]),
                          value2 |-> Prop(fingerprint2, missed[i])]],
      isSimilar |-> similarity >= 80]

\* a detectIPChange that takes the first record, similar or not
detectFirstDevice(stable, registeredDevices) ==
  IF registeredDevices = <<>> THEN 0 ELSE 1

\* the index of the first registered device whose deviceInfo is similar to
\* the stable fingerprint, 0 when there is none (isIPChange: false)
detectIPChange(stable, registeredDevices) ==
  LET similar == {i \in 1..Len(registeredDevices) :
                    compareDeviceFingerprints(
                        stable, registeredDevices[i].deviceInfo).isSimilar}
  IN IF similar = {} THEN 0
     ELSE CHOOSE i \in similar : \A j \in similar : i <= j

----------------------------------------------------------------------------
(* Document.save() of a user document `local`, against the stored document *)
(* `store`.                                                                *)

Last(s) == s[Len(s)]

\* registeredDevices.push(...) and currentDeviceId = ...: $push, $set, $inc __v
SavePush(store, local) ==
  [store EXCEPT !.registeredDevices = Append(@, Last(local.registeredDevices)),
                !.currentDeviceId = local.currentDeviceId]

\* registeredDevices assigned as a whole: $set of the array where __v is
\* the version read, $inc __v
SaveSet(store, local) ==
  [store EXCEPT !.registeredDevices = local.registeredDevices,
                !.currentDeviceId = local.currentDeviceId]

\* one element changed in place: $set of registeredDevices.i.* where __v is
\* the version read
SavePos(store, local, i) ==
  [store EXCEPT !.registeredDevices[i] = local.registeredDevices[i],
                !.currentDeviceId = local.currentDeviceId]

SaveUser(store, local, mode, i) ==
  CASE mode = "push" -> SavePush(store, local)
    [] mode = "set" -> SaveSet(store, local)
    [] OTHER -> SavePos(store, local, i)

\* the save is refused (VersionError) when the condition on __v fails
VersionOk(mode, stale) == mode = "push" \/ ~stale

\* the save increments __v
Increments(mode) == mode \in {"push", "set"}

----------------------------------------------------------------------------
(* Handler invocations *)

NoInfo == [userAgent |-> "", platform |-> "", ipAddress |-> ""]

\* a slot: the handler, its position, and what it holds in local variables
\* (doc: the user document read; stale: __v has moved on since)
Idle ==
  [deviceId |-> Null, info |-> NoInfo, reason |-> "", mode |-> "",
   stale |-> FALSE, op |-> "idle", pc |-> "idle", actor |-> "", rid |-> 0,
   notes |-> "", at |-> NoDate, uid |-> "", doc |-> NewUser("user"),
   idx |-> 0, kind |-> ""]

AdminNotes == {"checked"}
Reasons == {""}
RequestIds == 1..MaxRequests

\* the response a step sends, NoResponse when the step sends none
Response(op, code, kind) == [op |-> op, kind |-> kind, code |-> code]
NoResponse == Response("", 0, "")

\* a slot is free, and the slots are taken in order
Free(p) == procs[p].op = "idle" /\ \A q \in 1..(p - 1) : procs[q].op # "idle"

\* the handler of slot p returns
Finish(p, op, code, kind) ==
  /\ procs' = [procs EXCEPT ![p] = Idle]
  /\ res' = Response(op, code, kind)

\* the handler of slot p returns after it has incremented __v of user uid
FinishWrite(p, op, code, kind, uid, inc) ==
  /\ procs' = [q \in Procs |->
        IF q = p THEN Idle
        ELSE IF inc /\ procs[q].pc = "saveUser" /\ procs[q].uid = uid
             THEN [procs[q] EXCEPT !.stale = TRUE]
             ELSE procs[q]]
  /\ res' = Response(op, code, kind)

\* the logins and device registrations in flight that push a device for uid
Pushing(uid) ==
  {q \in Procs : procs[q].op \in {"register", "login", "registerDevice"}
                  /\ procs[q].uid = uid /\ procs[q].mode = "push"}

\* a login or a device registration that would push one more record is not
\* started once the registry holds MaxDevices records
Space(uid, deviceId) ==
  (uid \in DOMAIN users /\ ~isDeviceRegistered(users[uid], deviceId)) =>
    Len(users[uid].registeredDevices) + Cardinality(Pushing(uid)) < MaxDevices

\* a verifyToken that does not look at isActive
verifyTokenOfInactive(userId) == userId \in tokens /\ userId \in DOMAIN users

\* verifyToken: the bearer of a token issued for userId, whose account
\* exists and is active
verifyToken(userId) ==
  userId \in tokens /\ userId \in DOMAIN users /\ users[userId].isActive

\* a requireAdmin that lets every authenticated caller through
requireAnyone(userId) == TRUE

\* requireAdmin
requireAdmin(userId) == users[userId].role = "admin"

TypeOK ==
  /\ DOMAIN users \subseteq UserIds
  /\ tokens \subseteq UserIds
  /\ Len(requests) <= SerialMaxRequests

\* startServer: the default admin account is created, without a device
Init ==
  /\ users = (AdminId :> NewUser("admin"))
  /\ requests = <<>>
  /\ tokens = {}
  /\ procs = [p \in Procs |-> Idle]
  /\ res = NoResponse

----------------------------------------------------------------------------
(* POST /requests/:requestId/approve *)

\* router.use(verifyToken, requireAdmin), findById(requestId), the checks of
\* the request, and the assignments up to the call of request.save()
\* the routes without their check of the status
neverProcessed(request) == FALSE

\* if (request.status !== 'pending'): the request is not processed again, the
\* route answers 400 'Request has already been processed.'
alreadyProcessed(request) == request.status # "pending"

\* an approve that answers 'already processed' for an unknown request id
ApproveFindUnknownProcessed(p, actor, rid, notes, t) ==
  /\ Free(p)
  /\ UNCHANGED <<users, requests, tokens>>
  /\ IF ~verifyToken(actor) THEN Finish(p, "approve", 401, "")
     ELSE IF ~requireAdmin(actor) THEN Finish(p, "approve", 403, "")
     ELSE IF rid > Len(requests) \/ alreadyProcessed(requests[rid])
          THEN Finish(p, "approve", 400, "already processed")
     ELSE /\ procs' = [procs EXCEPT ![p] =
                [Idle EXCEPT !.op = "approve", !.pc = "saveRequest",
                             !.actor = actor, !.rid = rid, !.notes = notes,
                             !.at = t]]
          /\ res' = NoResponse

ApproveFind(p, actor, rid, notes, t) ==
  /\ Free(p)
  /\ UNCHANGED <<users, requests, tokens>>
  /\ IF ~verifyToken(actor) THEN Finish(p, "approve", 401, "")
     ELSE IF ~requireAdmin(actor) THEN Finish(p, "approve", 403, "")
     ELSE IF rid > Len(requests) THEN Finish(p, "approve", 404, "not found")
     ELSE IF alreadyProcessed(requests[rid])
          THEN Finish(p, "approve", 400, "already processed")
     ELSE /\ procs' = [procs EXCEPT ![p] =
                [Idle EXCEPT !.op = "approve", !.pc = "saveRequest",
                             !.actor = actor, !.rid = rid, !.notes = notes,
                             !.at = t]]
          /\ res' = NoResponse

\* a request.save() of approve that leaves reviewedBy as it was
ApproveSaveRequestUnsigned(p) ==
  /\ procs[p].op = "approve" /\ procs[p].pc = "saveRequest"
  /\ requests' = [requests EXCEPT ![procs[p].rid] =
        [@ EXCEPT !.status = "approved", !.reviewedAt = procs[p].at,
                  !.adminNotes = procs[p].notes]]
  /\ procs' = [procs EXCEPT ![p].pc = "findUser"]
  /\ res' = NoResponse
  /\ UNCHANGED <<users, tokens>>

\* await request.save(): status, reviewedAt, reviewedBy, adminNotes are $set
ApproveSaveRequest(p) ==
  /\ procs[p].op = "approve" /\ procs[p].pc = "saveRequest"
  /\ requests' = [requests EXCEPT ![procs[p].rid] =
        [@ EXCEPT !.status = "approved", !.reviewedAt = procs[p].at,
                  !.reviewedBy = procs[p].actor, !.adminNotes = procs[p].notes]]
  /\ procs' = [procs EXCEPT ![p].pc = "findUser"]
  /\ res' = NoResponse
  /\ UNCHANGED <<users, tokens>>

\* approve without the removal of the current device
ApprovedUserKeepingAll(user, request, t) ==
  [user EXCEPT
     !.registeredDevices =
         Append(@, DeviceRecord(request.newDeviceId, request.newDeviceInfo, t)),
     !.currentDeviceId = request.newDeviceId]

\* the user document of approve after the old device is removed and the new
\* one is pushed
ApprovedUser(user, request, t) ==
  LET kept == IF Truthy(user.currentDeviceId)
              THEN Filter(user.registeredDevices, user.currentDeviceId)
              ELSE user.registeredDevices
      newDeviceInfo == [userAgent |-> request.newDeviceInfo.userAgent,
                        platform |-> request.newDeviceInfo.platform,
                        ipAddress |-> request.newDeviceInfo.ipAddress]
  IN [user EXCEPT
        !.registeredDevices =
            Append(kept, DeviceRecord(request.newDeviceId, newDeviceInfo, t)),
        !.currentDeviceId = request.newDeviceId]

\* the array is written as a whole when the filter's result was assigned to
\* it and differs from what was read, else the push alone is written
ApproveMode(user) ==
  IF Truthy(user.currentDeviceId)
     /\ Filter(user.registeredDevices, user.currentDeviceId) # user.registeredDevices
  THEN "set" ELSE "push"

\* an approve that loads the caller's document instead of the owner's
ApproveFindUserOfActor(p, t) ==
  /\ procs[p].op = "approve" /\ procs[p].pc = "findUser"
  /\ LET uid == procs[p].actor
     IN IF uid \in DOMAIN users
        THEN /\ procs' = [procs EXCEPT ![p] =
                   [@ EXCEPT !.pc = "saveUser", !.uid = uid, !.doc = users[uid],
                             !.mode = ApproveMode(users[uid]), !.at = t]]
             /\ res' = NoResponse
        ELSE Finish(p, "approve", 200, "approved")
  /\ UNCHANGED <<users, requests, tokens>>

\* await User.findById(request.user); doc is the document as read
ApproveFindUser(p, t) ==
  /\ procs[p].op = "approve" /\ procs[p].pc = "findUser"
  /\ LET uid == requests[procs[p].rid].user
     IN IF uid \in DOMAIN users
        THEN /\ procs' = [procs EXCEPT ![p] =
                   [@ EXCEPT !.pc = "saveUser", !.uid = uid, !.doc = users[uid],
                             !.mode = ApproveMode(users[uid]), !.at = t]]
             /\ res' = NoResponse
        ELSE Finish(p, "approve", 200, "approved")
  /\ UNCHANGED <<users, requests, tokens>>

\* await user.save(), then the response; a refused save is caught: 500
ApproveSaveUser(p) ==
  /\ procs[p].op = "approve" /\ procs[p].pc = "saveUser"
  /\ LET uid == procs[p].uid
         changed == ApprovedUser(procs[p].doc, requests[procs[p].rid], procs[p].at)
     IN IF VersionOk(procs[p].mode, procs[p].stale)
        THEN /\ users' = [users EXCEPT ![uid] =
                   SaveUser(@, changed, procs[p].mode, 0)]
             /\ FinishWrite(p, "approve", 200, "approved", uid, TRUE)
        ELSE /\ UNCHANGED users
             /\ Finish(p, "approve", 500, "")
  /\ UNCHANGED <<requests, tokens>>

----------------------------------------------------------------------------
(* POST /requests/:requestId/reject *)

\* a reject that always stores the reason of its body, given or not
RejectFindOverwriting(p, actor, rid, notes, reason, t) ==
  /\ Free(p)
  /\ UNCHANGED <<users, requests, tokens>>
  /\ IF ~verifyToken(actor) THEN Finish(p, "reject", 401, "")
     ELSE IF ~requireAdmin(actor) THEN Finish(p, "reject", 403, "")
     ELSE IF rid > Len(requests) THEN Finish(p, "reject", 404, "not found")
     ELSE IF alreadyProcessed(requests[rid])
          THEN Finish(p, "reject", 400, "already processed")
     ELSE /\ procs' = [procs EXCEPT ![p] =
                [Idle EXCEPT !.op = "reject", !.pc = "saveRequest",
                             !.actor = actor, !.rid = rid, !.notes = notes,
                             !.reason = reason, !.at = t]]
          /\ res' = NoResponse

RejectFind(p, actor, rid, notes, reason, t) ==
  /\ Free(p)
  /\ UNCHANGED <<users, requests, tokens>>
  /\ IF ~verifyToken(actor) THEN Finish(p, "reject", 401, "")
     ELSE IF ~requireAdmin(actor) THEN Finish(p, "reject", 403, "")
     ELSE IF rid > Len(requests) THEN Finish(p, "reject", 404, "not found")
     ELSE IF alreadyProcessed(requests[rid])
          THEN Finish(p, "reject", 400, "already processed")
     ELSE /\ procs' = [procs EXCEPT ![p] =
                [Idle EXCEPT !.op = "reject", !.pc = "saveRequest",
                             !.actor = actor, !.rid = rid, !.notes = notes,
                             !.reason = Or(reason, requests[rid].reason),
                             !.at = t]]
          /\ res' = NoResponse

\* a reject that also makes the requested device the current one
RejectSaveRequestAndSwitch(p) ==
  /\ procs[p].op = "reject" /\ procs[p].pc = "saveRequest"
  /\ requests' = [requests EXCEPT ![procs[p].rid] =
        [@ EXCEPT !.status = "rejected", !.reviewedAt = procs[p].at,
                  !.reviewedBy = procs[p].actor, !.adminNotes = procs[p].notes,
                  !.reason = procs[p].reason]]
  /\ users' = [users EXCEPT ![requests[procs[p].rid].user].currentDeviceId =
                  requests[procs[p].rid].newDeviceId]
  /\ Finish(p, "reject", 200, "rejected")
  /\ UNCHANGED tokens

\* await request.save(), then the response
RejectSaveRequest(p) ==
  /\ procs[p].op = "reject" /\ procs[p].pc = "saveRequest"
  /\ requests' = [requests EXCEPT ![procs[p].rid] =
        [@ EXCEPT !.status = "rejected", !.reviewedAt = procs[p].at,
                  !.reviewedBy = procs[p].actor, !.adminNotes = procs[p].notes,
                  !.reason = procs[p].reason]]
  /\ Finish(p, "reject", 200, "rejected")
  /\ UNCHANGED <<users, tokens>>

----------------------------------------------------------------------------
(* userSchema.methods of the local document *)

\* a registerDevice that leaves currentDeviceId alone
registerDeviceOnly(user, deviceId, req, t) ==
  [user EXCEPT
     !.registeredDevices = Append(@, DeviceRecord(deviceId, deviceInfoOf(req), t))]

\* registerDevice, up to the call of save()
registerDevice(user, deviceId, req, t) ==
  [user EXCEPT
     !.registeredDevices = Append(@, DeviceRecord(deviceId, deviceInfoOf(req), t)),
     !.currentDeviceId = deviceId]

\* the index updateDeviceLastUsed finds, 0 when the device is not there
FindDevice(user, deviceId) ==
  LET found == {i \in 1..Len(user.registeredDevices) :
                  user.registeredDevices[i].deviceId = deviceId}
  IN IF found = {} THEN 0 ELSE CHOOSE i \in found : \A j \in found : i <= j

\* an updateDeviceLastUsed that also makes the device the current one
updateDeviceLastUsedAndCurrent(user, deviceId, t) ==
  LET i == FindDevice(user, deviceId)
  IN IF i = 0 THEN user
     ELSE [user EXCEPT !.registeredDevices[i].lastUsed = t,
                       !.currentDeviceId = deviceId]

\* updateDeviceLastUsed, up to the call of save()
updateDeviceLastUsed(user, deviceId, t) ==
  LET i == FindDevice(user, deviceId)
  IN IF i = 0 THEN user
     ELSE [user EXCEPT !.registeredDevices[i].lastUsed = t]

\* the IP change branch of login, up to the call of save()
RebindIP(user, i, addr, t) ==
  [user EXCEPT !.registeredDevices[i].deviceInfo.ipAddress = addr,
               !.registeredDevices[i].lastUsed = t,
               !.currentDeviceId = user.registeredDevices[i].deviceId]

\* the handler goes on to save the changed document `doc` of user uid
Await(p, op, uid, doc, mode, idx, kind) ==
  /\ procs' = [procs EXCEPT ![p] =
        [Idle EXCEPT !.op = op, !.pc = "saveUser", !.uid = uid, !.doc = doc,
                     !.mode = mode, !.idx = idx, !.kind = kind]]
  /\ res' = NoResponse

\* await user.save() of the slot's document, then generateToken and the
\* response `code`; a refused save is caught: 500
SaveAndRespond(p, op, code) ==
  LET uid == procs[p].uid
  IN IF VersionOk(procs[p].mode, procs[p].stale)
     THEN /\ users' = [users EXCEPT ![uid] =
                SaveUser(@, procs[p].doc, procs[p].mode, procs[p].idx)]
          /\ tokens' = tokens \cup {uid}
          /\ FinishWrite(p, op, code, procs[p].kind, uid, Increments(procs[p].mode))
     ELSE /\ UNCHANGED <<users, tokens>>
          /\ Finish(p, op, 500, "")

----------------------------------------------------------------------------
(* POST /register *)

\* the account is looked up and inserted (email and username are unique)
RegisterInsert(p, uid, req, t) ==
  /\ Free(p)
  /\ UNCHANGED <<requests, tokens>>
  /\ IF uid \in DOMAIN users
     THEN /\ Finish(p, "register", 400, "exists")
          /\ UNCHANGED users
     ELSE /\ users' = users @@ (uid :> NewUser("user"))
          /\ Await(p, "register", uid,
                   registerDevice(NewUser("user"), generateDeviceId(uid, req), req, t),
                   "push", 0, "registered")

\* await user.registerDevice(deviceId, req), the token and the response
RegisterSave(p) ==
  /\ procs[p].op = "register" /\ procs[p].pc = "saveUser"
  /\ SaveAndRespond(p, "register", 201)
  /\ UNCHANGED requests

----------------------------------------------------------------------------
(* POST /login *)

\* a login that tests the empty registry before the role
LoginFindBootstrapFirst(p, uid, passwordValid, req, t) ==
  /\ Free(p) /\ Space(uid, generateDeviceId(uid, req))
  /\ UNCHANGED <<users, requests, tokens>>
  /\ IF uid \notin DOMAIN users \/ ~users[uid].isActive \/ ~passwordValid
     THEN Finish(p, "login", 401, "")
     ELSE
       LET user == users[uid]
           deviceId == generateDeviceId(uid, req)
           similar == detectIPChange(stableFingerprint(req), user.registeredDevices)
       IN IF ~isDeviceRegistered(user, deviceId)
          THEN IF Len(user.registeredDevices) = 0
               THEN Await(p, "login", uid, registerDevice(user, deviceId, req, t),
                          "push", 0, "AUTO_REGISTER")
               ELSE IF isAdmin(user)
               THEN Await(p, "login", uid, registerDevice(user, deviceId, req, t),
                          "push", 0, "ADMIN_BYPASS")
               ELSE IF similar # 0
               THEN Await(p, "login", uid, RebindIP(user, similar, req.ip, t),
                          "pos", similar, "IP_REBIND")
               ELSE Finish(p, "login", 403, "NEEDS_REVIEW")
          ELSE Await(p, "login", uid, updateDeviceLastUsed(user, deviceId, t),
                     "pos", FindDevice(user, deviceId), "LOGIN_OK")

\* a login that files a change request when it answers NEEDS_REVIEW
LoginFindFiling(p, uid, passwordValid, req, t) ==
  /\ Free(p) /\ Space(uid, generateDeviceId(uid, req))
  /\ UNCHANGED <<users, tokens>>
  /\ IF uid \notin DOMAIN users \/ ~users[uid].isActive \/ ~passwordValid
     THEN Finish(p, "login", 401, "") /\ UNCHANGED requests
     ELSE
       LET user == users[uid]
           deviceId == generateDeviceId(uid, req)
       IN IF ~isDeviceRegistered(user, deviceId)
          THEN IF isAdmin(user)
               THEN /\ Await(p, "login", uid, registerDevice(user, deviceId, req, t),
                             "push", 0, "ADMIN_BYPASS")
                    /\ UNCHANGED requests
               ELSE IF Len(user.registeredDevices) = 0
               THEN /\ Await(p, "login", uid, registerDevice(user, deviceId, req, t),
                             "push", 0, "AUTO_REGISTER")
                    /\ UNCHANGED requests
               ELSE /\ Finish(p, "login", 403, "NEEDS_REVIEW")
                    /\ requests' = Append(requests,
                          NewRequest(uid, user.currentDeviceId, deviceId,
                                     deviceInfoOf(req), "Login attempt from new device"))
          ELSE /\ Await(p, "login", uid, updateDeviceLastUsed(user, deviceId, t),
                        "pos", FindDevice(user, deviceId), "LOGIN_OK")
               /\ UNCHANGED requests

\* findOne, isActive, comparePassword, the device id of the request and the
\* decision, up to the save of the branch taken
LoginFind(p, uid, passwordValid, req, t) ==
  /\ Free(p) /\ Space(uid, generateDeviceId(uid, req))
  /\ UNCHANGED <<users, requests, tokens>>
  /\ IF uid \notin DOMAIN users \/ ~users[uid].isActive \/ ~passwordValid
     THEN Finish(p, "login", 401, "")
     ELSE
       LET user == users[uid]
           deviceId == generateDeviceId(uid, req)
           similar == detectIPChange(stableFingerprint(req), user.registeredDevices)
       IN IF ~isDeviceRegistered(user, deviceId)
          THEN IF isAdmin(user)
               THEN Await(p, "login", uid, registerDevice(user, deviceId, req, t),
                          "push", 0, "ADMIN_BYPASS")
               ELSE IF Len(user.registeredDevices) = 0
               THEN Await(p, "login", uid, registerDevice(user, deviceId, req, t),
                          "push", 0, "AUTO_REGISTER")
               ELSE IF similar # 0
               THEN Await(p, "login", uid, RebindIP(user, similar, req.ip, t),
                          "pos", similar, "IP_REBIND")
               ELSE Finish(p, "login", 403, "NEEDS_REVIEW")
          ELSE Await(p, "login", uid, updateDeviceLastUsed(user, deviceId, t),
                     "pos", FindDevice(user, deviceId), "LOGIN_OK")

\* the awaited save of the branch taken, the token and the response
LoginSave(p) ==
  /\ procs[p].op = "login" /\ procs[p].pc = "saveUser"
  /\ SaveAndRespond(p, "login", 200)
  /\ UNCHANGED requests

----------------------------------------------------------------------------
(* POST /register-device *)

RegisterDeviceFind(p, uid, req, t) ==
  /\ Free(p) /\ Space(uid, generateDeviceId(uid, req))
  /\ UNCHANGED <<users, requests, tokens>>
  /\ IF ~verifyToken(uid) THEN Finish(p, "registerDevice", 401, "")
     ELSE IF isDeviceRegistered(users[uid], generateDeviceId(uid, req))
     THEN Finish(p, "registerDevice", 400, "already registered")
     ELSE Await(p, "registerDevice", uid,
                registerDevice(users[uid], generateDeviceId(uid, req), req, t),
                "push", 0, "registered")

RegisterDeviceSave(p) ==
  /\ procs[p].op = "registerDevice" /\ procs[p].pc = "saveUser"
  /\ SaveAndRespond(p, "registerDevice", 200)
  /\ UNCHANGED requests

----------------------------------------------------------------------------
(* POST /request-device-change and POST /request-device-change-unauth *)

Creating == {q \in Procs : procs[q].op \in {"requestChange", "requestChangeUnauth"}}

\* a creation is started while the request store, with the creations in
\* flight, holds fewer than max requests
Room(max) == Len(requests) + Cardinality(Creating) < max

\* the checks made on the user document, up to findOne
CreateCheck(p, op, user, uid, deviceId, info, reason) ==
  IF isDeviceRegistered(user, deviceId)
  THEN Finish(p, op, 400, "already registered")
  ELSE /\ procs' = [procs EXCEPT ![p] =
             [Idle EXCEPT !.op = op, !.pc = "findPending", !.uid = uid,
                          !.deviceId = deviceId, !.info = info,
                          !.reason = reason, !.doc = user]]
       /\ res' = NoResponse

\* verifyToken, the device id of this request, isDeviceRegistered
RequestChangeFind(p, uid, req, reason) ==
  /\ Free(p)
  /\ UNCHANGED <<users, requests, tokens>>
  /\ IF ~verifyToken(uid) THEN Finish(p, "requestChange", 401, "")
     ELSE CreateCheck(p, "requestChange", users[uid], uid,
                      generateDeviceId(uid, req), deviceInfoOf(req),
                      Or(reason, "User requested device change"))

\* User.findOne, comparePassword, isDeviceRegistered of the device id and
\* the device info the body carries
RequestChangeUnauthFind(p, uid, passwordValid, deviceId, newDeviceInfo, reason) ==
  /\ Free(p)
  /\ UNCHANGED <<users, requests, tokens>>
  /\ IF uid \notin DOMAIN users \/ ~users[uid].isActive \/ ~passwordValid
     THEN Finish(p, "requestChangeUnauth", 401, "")
     ELSE CreateCheck(p, "requestChangeUnauth", users[uid], uid, deviceId,
                      newDeviceInfo, Or(reason, "Login attempt from new device"))

\* a findOne that finds nothing
findsNothing(uid, deviceId) == FALSE

\* a findOne without the condition on the status
findsAnyStatus(uid, deviceId) ==
  \E i \in 1..Len(requests) :
     requests[i].user = uid /\ requests[i].newDeviceId = deviceId

\* DeviceChangeRequest.findOne({user, newDeviceId, status: 'pending'})
HasPending(uid, deviceId) ==
  \E i \in 1..Len(requests) :
     /\ requests[i].user = uid
     /\ requests[i].newDeviceId = deviceId
     /\ requests[i].status = "pending"

\* await findOne, and the request document built from the user document
CreateFindPending(p) ==
  /\ procs[p].op \in {"requestChange", "requestChangeUnauth"}
  /\ procs[p].pc = "findPending"
  /\ UNCHANGED <<users, requests, tokens>>
  /\ IF HasPending(procs[p].uid, procs[p].deviceId)
     THEN Finish(p, procs[p].op, 400, "already exists")
     ELSE /\ procs' = [procs EXCEPT ![p].pc = "insert"]
          /\ res' = NoResponse

\* a save of the request with currentDeviceId as read, without 'none'
CreateInsertAsRead(p) ==
  /\ procs[p].op \in {"requestChange", "requestChangeUnauth"}
  /\ procs[p].pc = "insert"
  /\ requests' = Append(requests,
        NewRequest(procs[p].uid, procs[p].doc.currentDeviceId,
                   procs[p].deviceId, procs[p].info, procs[p].reason))
  /\ Finish(p, procs[p].op, 201, "created")
  /\ UNCHANGED <<users, tokens>>

\* await deviceChangeRequest.save(), then the response
CreateInsert(p) ==
  /\ procs[p].op \in {"requestChange", "requestChangeUnauth"}
  /\ procs[p].pc = "insert"
  /\ requests' = Append(requests,
        NewRequest(procs[p].uid,
                   IF Truthy(procs[p].doc.currentDeviceId)
                   THEN procs[p].doc.currentDeviceId ELSE None,
                   procs[p].deviceId, procs[p].info, procs[p].reason))
  /\ Finish(p, procs[p].op, 201, "created")
  /\ UNCHANGED <<users, tokens>>

----------------------------------------------------------------------------

Next ==
  \E p \in Procs :
     \/ \E actor \in UserIds, rid \in RequestIds, notes \in AdminNotes, t \in Times :
           ApproveFind(p, actor, rid, notes, t)
     \/ ApproveSaveRequest(p)
     \/ \E t \in Times : ApproveFindUser(p, t)
     \/ ApproveSaveUser(p)
     \/ \E actor \in UserIds, rid \in RequestIds, notes \in AdminNotes,
           reason \in Reasons, t \in Times :
           RejectFind(p, actor, rid, notes, reason, t)
     \/ RejectSaveRequest(p)
     \/ \E uid \in UserIds \ {AdminId}, req \in HttpRequests, t \in Times :
           RegisterInsert(p, uid, req, t)
     \/ RegisterSave(p)
     \/ \E uid \in UserIds : \E pw \in BOOLEAN, req \in BrowsersOf(uid), t \in Times :
           LoginFind(p, uid, pw, req, t)
     \/ LoginSave(p)
     \/ \E uid \in UserIds : \E req \in BrowsersOf(uid), t \in Times :
           RegisterDeviceFind(p, uid, req, t)
     \/ RegisterDeviceSave(p)
     \/ \E uid \in UserIds : \E req \in BrowsersOf(uid), reason \in Reasons :
           Room(MaxRequests) /\ RequestChangeFind(p, uid, req, reason)
     \/ \E uid \in UserIds : \E pw \in BOOLEAN, req \in BrowsersOf(uid),
           reason \in Reasons :
           /\ Room(MaxRequests)
           /\ RequestChangeUnauthFind(p, uid, pw, generateDeviceId(uid, req),
                                      deviceInfoOf(req), reason)
     \/ CreateFindPending(p)
     \/ CreateInsert(p)

Spec == Init /\ [][Next]_vars

----------------------------------------------------------------------------
(* The handlers one at a time, with more data: two stored requests, two    *)
(* instants, reasons given or not.  Only the creations of change requests  *)
(* overlap one another.                                                    *)

SerialTimes == 0..SerialMaxTime
SerialRequestIds == 1..SerialMaxRequests

\* the instants stored so far
StoredTimes ==
  UNION {{users[uid].registeredDevices[i].registeredAt :
            i \in 1..Len(users[uid].registeredDevices)}
         \cup {users[uid].registeredDevices[i].lastUsed :
                 i \in 1..Len(users[uid].registeredDevices)} :
         uid \in DOMAIN users}
  \cup {requests[i].reviewedAt : i \in 1..Len(requests)}

\* new Date(): the clock does not go back
Now == {t \in SerialTimes : \A s \in StoredTimes : s <= t}

\* a login may also come from a machine that is none of the user's browsers
LoginBrowsersOf(userId) ==
  IF userId = AdminId THEN BrowsersOf(userId)
  ELSE BrowsersOf(userId) \cup {Http(AgentNames[NumAgents + 1], IPNames[1])}

\* no handler is running
Calm == \A q \in Procs : procs[q].op = "idle"

\* no handler other than creations of change requests is running
CalmButCreating ==
  \A q \in Procs : procs[q].op \in {"idle", "requestChange", "requestChangeUnauth"}

SerialNext ==
  \E p \in Procs :
     \/ \E actor \in UserIds, rid \in SerialRequestIds, notes \in AdminNotes,
           t \in Now :
           Calm /\ ApproveFind(p, actor, rid, notes, t)
     \/ ApproveSaveRequest(p)
     \/ \E t \in Now : ApproveFindUser(p, t)
     \/ ApproveSaveUser(p)
     \/ \E actor \in UserIds, rid \in SerialRequestIds, notes \in AdminNotes,
           reason \in Reasons, t \in Now :
           Calm /\ RejectFind(p, actor, rid, notes, reason, t)
     \/ RejectSaveRequest(p)
     \/ \E uid \in UserIds \ {AdminId}, req \in HttpRequests, t \in Now :
           Calm /\ RegisterInsert(p, uid, req, t)
     \/ RegisterSave(p)
     \/ \E uid \in UserIds : \E pw \in BOOLEAN, req \in LoginBrowsersOf(uid),
           t \in Now :
           Calm /\ LoginFind(p, uid, pw, req, t)
     \/ LoginSave(p)
     \/ \E uid \in UserIds : \E req \in BrowsersOf(uid), t \in Now :
           Calm /\ RegisterDeviceFind(p, uid, req, t)
     \/ RegisterDeviceSave(p)
     \/ \E uid \in UserIds : \E req \in BrowsersOf(uid), reason \in Reasons :
           /\ CalmButCreating /\ Room(SerialMaxRequests)
           /\ RequestChangeFind(p, uid, req, reason)
     \/ \E uid \in UserIds : \E pw \in BOOLEAN, req \in BrowsersOf(uid),
           reason \in Reasons :
           /\ CalmButCreating /\ Room(SerialMaxRequests)
           /\ RequestChangeUnauthFind(p, uid, pw, generateDeviceId(uid, req),
                                      deviceInfoOf(req), reason)
     \/ CreateFindPending(p)
     \/ CreateInsert(p)

SerialSpec == Init /\ [][SerialNext]_vars

----------------------------------------------------------------------------
(* Terminal requests *)

Terminal(rid) ==
  rid <= Len(requests) /\ requests[rid].status \in {"approved", "rejected"}

Admin(actor) == verifyToken(actor) /\ requireAdmin(actor)

\* C1: an approve or a reject call by an administrator on a request that is
\* already approved or rejected answers 400 'already processed' and leaves
\* every stored request (status, reviewedAt, reviewedBy, adminNotes, reason)
\* and every user (registeredDevices, currentDeviceId) as they were.
C1_TerminalIdempotent ==
  [][\A p \in Procs, actor \in UserIds, rid \in RequestIds,
        notes \in AdminNotes, reason \in Reasons, t \in Times :
        (/\ Terminal(rid)
         /\ Admin(actor)
         /\ \/ ApproveFind(p, actor, rid, notes, t)
            \/ RejectFind(p, actor, rid, notes, reason, t))
        => /\ res'.code = 400
           /\ res'.kind = "already processed"
           /\ procs'[p] = Idle
           /\ requests' = requests
           /\ users' = users]_vars

\* a call on a terminal request has just been refused
C1_Witness ==
  /\ res.code = 400 /\ res.kind = "already processed"
  /\ \E rid \in RequestIds : Terminal(rid)

----------------------------------------------------------------------------
(* Concurrent decisions on one request *)

\* C2: of two approve calls on the same pending request only the first
\* transition from pending succeeds: an approve call writes the request
\* only while its stored status is not yet approved, so that the user's
\* registry is evicted from and appended to once.
C2_OnlyFirstApproveSucceeds ==
  [][\A p \in Procs :
        ApproveSaveRequest(p) => requests[procs[p].rid].status # "approved"]_vars

\* C3: the status of a request changes once, from pending to approved or
\* rejected, and never changes again, under any interleaving of approve
\* and reject calls.
C3_StatusChangesOnce ==
  [][\A rid \in 1..Len(requests) :
        requests[rid].status # "pending"
        => requests'[rid].status = requests[rid].status]_vars

----------------------------------------------------------------------------
(* The effect of an approval on the registry *)

\* slot p answers 200 to an approve in this step
Approves(p) == ApproveSaveUser(p) /\ res'.code = 200

\* the registry and the pointer after an approval of new device B that
\* read A as the current device
Swapped(user, A, B, distinct) ==
  /\ isDeviceRegistered(user, B)
  /\ user.currentDeviceId = B
  /\ (Truthy(A) /\ (distinct => A # B)) => ~isDeviceRegistered(user, A)

\* C4 as stated: a successful approve for a user whose currentDeviceId at
\* approval time is A, of a request that names new device B, leaves a
\* record for B and no record for A in the registry, and currentDeviceId = B.
C4_ApproveSwapsAny ==
  [][\A p \in Procs :
        Approves(p) =>
          Swapped(users'[procs[p].uid], procs[p].doc.currentDeviceId,
                  requests[procs[p].rid].newDeviceId, FALSE)]_vars

\* C4: a successful approve for a user whose currentDeviceId, as the approve
\* read it, is A, of a request that names new device B, leaves a record for
\* B in the registry and sets currentDeviceId to B, and leaves no record for
\* A when A is another device than B; A is the device current at approval
\* time, whatever the request recorded at its creation.
C4_ApproveSwaps ==
  [][\A p \in Procs :
        Approves(p) =>
          Swapped(users'[procs[p].uid], procs[p].doc.currentDeviceId,
                  requests[procs[p].rid].newDeviceId, TRUE)]_vars

\* an approval has just replaced the only device of a user by the new one,
\* and the request had recorded no current device at its creation
C4_Witness ==
  /\ res = Response("approve", 200, "approved")
  /\ \A p \in Procs : procs[p].op = "idle"
  /\ \E rid \in 1..Len(requests) :
        LET request == requests[rid]
            user == users[request.user]
        IN /\ request.status = "approved"
           /\ request.currentDeviceId = None
           /\ user.role = "user"
           /\ Len(user.registeredDevices) = 1
           /\ user.registeredDevices[1].deviceId = request.newDeviceId
           /\ user.currentDeviceId = request.newDeviceId

----------------------------------------------------------------------------
(* Reject and the registry *)

\* a reject call takes a step: it starts in a free slot, or it answers
RejectStep ==
  \/ res'.op = "reject"
  \/ \E p \in Procs : procs[p].op = "idle" /\ procs'[p].op = "reject"

\* C5: a reject call, whether it succeeds or fails, leaves every user's
\* registeredDevices (membership, order, record contents) and
\* currentDeviceId unchanged.
C5_RejectKeepsRegistry ==
  [][RejectStep => users' = users]_vars

\* a reject has just succeeded on a request of a user who has a device
C5_Witness ==
  /\ res = Response("reject", 200, "rejected")
  /\ \E rid \in 1..Len(requests) :
        /\ requests[rid].status = "rejected"
        /\ Len(users[requests[rid].user].registeredDevices) > 0
        /\ users[requests[rid].user].currentDeviceId # requests[rid].newDeviceId

----------------------------------------------------------------------------
(* The registry: how many devices, how records come and go *)

RECURSIVE Count(_, _)
\* the number of records of devs with this deviceId
Count(devs, deviceId) ==
  IF devs = <<>> THEN 0
  ELSE (IF Head(devs).deviceId = deviceId THEN 1 ELSE 0)
       + Count(Tail(devs), deviceId)

DeviceIds == UNION {DeviceIdsOf(userId) : userId \in UserIds}

\* a record with this deviceId is added to, removed from, the registry of uid
Added(uid, deviceId) ==
  Count(users'[uid].registeredDevices, deviceId)
    > Count(users[uid].registeredDevices, deviceId)
Removed(uid, deviceId) ==
  Count(users'[uid].registeredDevices, deviceId)
    < Count(users[uid].registeredDevices, deviceId)

\* C6: in every reachable state each non-admin user has at most one record
\* in registeredDevices.
C6_SingleDevice ==
  \A uid \in DOMAIN users :
     users[uid].role # "admin" => Len(users[uid].registeredDevices) <= 1

\* C7: for a non-admin user whose registry is non-empty, a device record is
\* added by no operation other than an administrator's approve.
C7_AddedOnlyByApprove ==
  [][\A uid \in DOMAIN users, deviceId \in DeviceIds :
        (/\ users[uid].role # "admin"
         /\ users[uid].registeredDevices # <<>>
         /\ Added(uid, deviceId))
        => res' = Response("approve", 200, "approved")]_vars

\* C8: a record is removed from a user's registeredDevices only by a
\* successful approve, and only if its deviceId is the user's
\* currentDeviceId at that moment.
C8_RemovedOnlyByApprove ==
  [][\A uid \in DOMAIN users, deviceId \in DeviceIds :
        Removed(uid, deviceId)
        => /\ res' = Response("approve", 200, "approved")
           /\ deviceId = users[uid].currentDeviceId]_vars

\* an approval has just removed the device that the request recorded as the
\* current one
C8_Witness ==
  /\ res = Response("approve", 200, "approved")
  /\ \E rid \in 1..Len(requests) :
        LET request == requests[rid]
            user == users[request.user]
        IN /\ request.status = "approved"
           /\ request.currentDeviceId \in DeviceIds \ {request.newDeviceId}
           /\ ~isDeviceRegistered(user, request.currentDeviceId)
           /\ isDeviceRegistered(user, request.newDeviceId)

\* C9: in every reachable state no two records of one user's
\* registeredDevices have the same deviceId.
C9_NoDuplicateDevice ==
  \A uid \in DOMAIN users, deviceId \in DeviceIds :
     Count(users[uid].registeredDevices, deviceId) <= 1

\* C10: in every reachable state, for every user whose registeredDevices is
\* non-empty and whose currentDeviceId is set, exactly one record has
\* deviceId equal to currentDeviceId.
C10_CurrentIsOneRecord ==
  \A uid \in DOMAIN users :
     (users[uid].registeredDevices # <<>> /\ Truthy(users[uid].currentDeviceId))
     => Count(users[uid].registeredDevices, users[uid].currentDeviceId) = 1

----------------------------------------------------------------------------
(* Creation of change requests *)

\* the stored requests of this user for this device that are pending
PendingFor(uid, deviceId) ==
  {i \in 1..Len(requests) : /\ requests[i].user = uid
                            /\ requests[i].newDeviceId = deviceId
                            /\ requests[i].status = "pending"}

\* C11: a creation of a change request for (user, newDeviceId), by either
\* route, that looks for a pending request of that pair while one is stored
\* answers 400 and adds no request.
C11_DuplicateRefused ==
  [][\A p \in Procs :
        (CreateFindPending(p) /\ PendingFor(procs[p].uid, procs[p].deviceId) # {})
        => /\ res' = Response(procs[p].op, 400, "already exists")
           /\ procs'[p] = Idle
           /\ requests' = requests]_vars

\* a creation has just been refused because of a stored pending request
C11_Witness ==
  /\ res.code = 400 /\ res.kind = "already exists"
  /\ res.op \in {"requestChange", "requestChangeUnauth"}
  /\ \E i \in 1..Len(requests) : requests[i].status = "pending"
  /\ Len(requests) < SerialMaxRequests

\* C12: in every reachable state at most one pending request is stored for
\* each pair of a user and a new device, also when two creations for the
\* pair run concurrently.
C12_OnePendingPerPair ==
  \A i, j \in 1..Len(requests) :
     (/\ requests[i].status = "pending" /\ requests[j].status = "pending"
      /\ requests[i].user = requests[j].user
      /\ requests[i].newDeviceId = requests[j].newDeviceId)
     => i = j

\* the stored requests of this user for this device that are resolved
ResolvedFor(uid, deviceId) ==
  {i \in 1..Len(requests) : /\ requests[i].user = uid
                            /\ requests[i].newDeviceId = deviceId
                            /\ requests[i].status \in {"approved", "rejected"}}

\* a creation by uid for the device of req starts in slot p, with a valid
\* token or password
CreateStarts(p, uid, req) ==
  \E reason \in Reasons :
     \/ verifyToken(uid) /\ RequestChangeFind(p, uid, req, reason)
     \/ /\ uid \in DOMAIN users /\ users[uid].isActive
        /\ RequestChangeUnauthFind(p, uid, TRUE, generateDeviceId(uid, req),
                                   deviceInfoOf(req), reason)

\* the creation in slot p goes through: started, it goes on to findOne;
\* having found nothing, it goes on to save; saved, it has appended one
\* pending request for its user and device and answers 201
GoesOn(p, pc) == procs'[p].pc = pc /\ res' = NoResponse
Created(p) ==
  /\ Len(requests') = Len(requests) + 1
  /\ \A i \in 1..Len(requests) : requests'[i] = requests[i]
  /\ requests'[Len(requests')].user = procs[p].uid
  /\ requests'[Len(requests')].newDeviceId = procs[p].deviceId
  /\ requests'[Len(requests')].status = "pending"
  /\ res' = Response(procs[p].op, 201, "created")

\* C13 as stated: once the request for (user, deviceId) is resolved, by
\* approval or by rejection, and none is pending, a new creation for the
\* same user and deviceId is accepted.
C13_CreateAfterResolved ==
  [][\A p \in Procs, uid \in UserIds, req \in HttpRequests :
        (/\ ResolvedFor(uid, generateDeviceId(uid, req)) # {}
         /\ PendingFor(uid, generateDeviceId(uid, req)) = {}
         /\ CreateStarts(p, uid, req))
        => GoesOn(p, "findPending")]_vars

\* C13: once the request for (user, deviceId) is resolved and none is
\* pending, a new creation for the same user and deviceId succeeds and
\* stores a new pending request, provided deviceId is not in the user's
\* registeredDevices (as it is right after an approval).
C13_CreateAfterResolvedUnregistered ==
  [][\A p \in Procs :
        /\ \A uid \in UserIds, req \in HttpRequests :
              (/\ ResolvedFor(uid, generateDeviceId(uid, req)) # {}
               /\ PendingFor(uid, generateDeviceId(uid, req)) = {}
               /\ ~isDeviceRegistered(users[uid], generateDeviceId(uid, req))
               /\ CreateStarts(p, uid, req))
              => GoesOn(p, "findPending")
        /\ (/\ ResolvedFor(procs[p].uid, procs[p].deviceId) # {}
            /\ PendingFor(procs[p].uid, procs[p].deviceId) = {}
            /\ CreateFindPending(p))
           => GoesOn(p, "insert")
        /\ CreateInsert(p) => Created(p)]_vars

\* a request has just been created for a user and a device whose earlier
\* request was rejected
C13_Witness ==
  /\ res.code = 201 /\ res.kind = "created"
  /\ Len(requests) = 2
  /\ requests[1].status = "rejected"
  /\ requests[2].status = "pending"
  /\ requests[2].user = requests[1].user
  /\ requests[2].newDeviceId = requests[1].newDeviceId

----------------------------------------------------------------------------
(* The decision of a login *)

\* a login starts in slot p
LoginBegins(p) ==
  procs[p].op = "idle" /\ (res'.op = "login" \/ procs'[p].op = "login")

\* a login of uid with valid credentials, from req, starts in slot p
LoginStarts(p, uid, req) ==
  /\ uid \in DOMAIN users /\ users[uid].isActive
  /\ \E t \in Times \cup SerialTimes : LoginFind(p, uid, TRUE, req, t)

\* the decision the step has taken: the refusal it answers, or the branch
\* whose save it goes on to
Decided(p) == IF res' # NoResponse THEN res'.kind ELSE procs'[p].kind

\* some record of the registry is similar to the stable attributes of req
SomeSimilar(user, req) ==
  \E i \in 1..Len(user.registeredDevices) :
     compareDeviceFingerprints(stableFingerprint(req),
                               user.registeredDevices[i].deviceInfo).similarity >= 80

\* the decision in the fixed order
Ordered(user, deviceId, req) ==
  IF isDeviceRegistered(user, deviceId) THEN "LOGIN_OK"
  ELSE IF user.role = "admin" THEN "ADMIN_BYPASS"
  ELSE IF user.registeredDevices = <<>> THEN "AUTO_REGISTER"
  ELSE IF SomeSimilar(user, req) THEN "IP_REBIND"
  ELSE "NEEDS_REVIEW"

LoginAnswers(p, kind) ==
  /\ procs[p].op = "login" /\ procs[p].kind = kind
  /\ LoginSave(p)

\* the device a login or a registration in slot p is about to push
Pushed(p) == Last(procs[p].doc.registeredDevices).deviceId

C16_BootstrapRegistersOne ==
  [][\A p \in Procs :
        /\ LoginBegins(p) =>
             \A uid \in UserIds, req \in HttpRequests :
                (/\ LoginStarts(p, uid, req) /\ users[uid].role # "admin"
                 /\ users[uid].registeredDevices = <<>>)
                => Decided(p) = "AUTO_REGISTER"
        /\ LoginAnswers(p, "AUTO_REGISTER")
           => /\ res' = Response("login", 200, "AUTO_REGISTER")
              /\ Len(users'[procs[p].uid].registeredDevices) = 1
              /\ users'[procs[p].uid].registeredDevices[1].deviceId = Pushed(p)
              /\ users'[procs[p].uid].currentDeviceId = Pushed(p)]_vars

\* C17: a login from a registered device (LOGIN_OK) changes only the
\* lastUsed time of the matching record; the membership and order of
\* registeredDevices, every deviceId and deviceInfo, and currentDeviceId
\* stay, also when the matching device is not the current one.
C17_LoginOkTouchesLastUsed ==
  [][\A p \in Procs :
        LoginAnswers(p, "LOGIN_OK")
        => LET uid == procs[p].uid
               i == procs[p].idx
           IN /\ res' = Response("login", 200, "LOGIN_OK")
              /\ users' = [users EXCEPT ![uid].registeredDevices[i].lastUsed =
                             users'[uid].registeredDevices[i].lastUsed]]_vars

\* a login has just been answered LOGIN_OK, and a record that is not the
\* current one has been used after the current one was registered
C17_Witness ==
  /\ res = Response("login", 200, "LOGIN_OK")
  /\ \E uid \in DOMAIN users :
        \E i, j \in 1..Len(users[uid].registeredDevices) :
           LET used == users[uid].registeredDevices[i]
               current == users[uid].registeredDevices[j]
           IN /\ current.deviceId = users[uid].currentDeviceId
              /\ used.deviceId # users[uid].currentDeviceId
              /\ used.lastUsed > current.registeredAt
              /\ used.lastUsed > used.registeredAt

----------------------------------------------------------------------------
(* The IP change branch of login *)

\* the ten stable attributes of the device a record was registered for: the
\* ones its deviceId was computed from
AttributesOf(record) == record.deviceId[2]

\* the similarity of the stable attributes of req to those of the device
\* of a record
SimilarityTo(record, req) ==
  compareDeviceFingerprints(stableFingerprint(req), AttributesOf(record)).similarity

\* the records of a registry whose device is similar to that of req
SimilarRecords(user, req) ==
  {i \in 1..Len(user.registeredDevices) :
     SimilarityTo(user.registeredDevices[i], req) >= 80}

\* the login in slot p goes on to rebind record i of user to the address
\* of req: the record gets the address, the other records and the
\* membership stay, currentDeviceId is the deviceId of the record
Rebinds(p, user, i, req) ==
  /\ Decided(p) = "IP_REBIND"
  /\ procs'[p].idx = i
  /\ Len(procs'[p].doc.registeredDevices) = Len(user.registeredDevices)
  /\ \A j \in 1..Len(user.registeredDevices) :
        IF j = i
        THEN /\ procs'[p].doc.registeredDevices[j].deviceId
                  = user.registeredDevices[j].deviceId
             /\ procs'[p].doc.registeredDevices[j].deviceInfo.ipAddress = req.ip
        ELSE procs'[p].doc.registeredDevices[j] = user.registeredDevices[j]
  /\ procs'[p].doc.currentDeviceId = user.registeredDevices[i].deviceId

\* C19: for a non-admin user with registeredDevices = [d1] and
\* currentDeviceId = d1, a login from an unregistered device whose ten
\* stable attributes differ from those of d1's device in exactly one key
\* (similarity 90) yields IP_REBIND on d1.
C19_OneKeyOffRebinds ==
  [][\A p \in Procs :
        LoginBegins(p) =>
          \A uid \in UserIds : \A req \in LoginBrowsersOf(uid) :
             (/\ LoginStarts(p, uid, req)
              /\ users[uid].role # "admin"
              /\ Len(users[uid].registeredDevices) = 1
              /\ users[uid].currentDeviceId = users[uid].registeredDevices[1].deviceId
              /\ ~isDeviceRegistered(users[uid], generateDeviceId(uid, req))
              /\ SimilarityTo(users[uid].registeredDevices[1], req) = 90)
             => Rebinds(p, users[uid], 1, req)]_vars

\* C20: when several registered records reach similarity at least 80
\* against the stable attributes of a login from an unregistered device,
\* the login yields IP_REBIND on the first of them in registration order
\* and changes no other record.
C20_FirstSimilarRebinds ==
  [][\A p \in Procs :
        LoginBegins(p) =>
          \A uid \in UserIds : \A req \in LoginBrowsersOf(uid) :
             (/\ LoginStarts(p, uid, req)
              /\ users[uid].role # "admin"
              /\ ~isDeviceRegistered(users[uid], generateDeviceId(uid, req))
              /\ Cardinality(SimilarRecords(users[uid], req)) >= 2)
             => Rebinds(p, users[uid],
                        CHOOSE i \in SimilarRecords(users[uid], req) :
                           \A j \in SimilarRecords(users[uid], req) : i <= j,
                        req)]_vars

----------------------------------------------------------------------------
(* One user whose browsers differ in several stable attributes and who     *)
(* connects from several addresses, directly or through a proxy: the       *)
(* account is registered and devices are added at the first address, the   *)
(* logins come from the last one.  One handler at a time.                  *)

\* the number of stable attributes, other than the user agent, in which a
\* browser differs from the plain one
Variations == {0, 4}

\* the value of X-Forwarded-For and X-Real-IP a proxy sets
ProxyAddresses == {"", "203.0.113.7"}

\* a browser that sends the first k of five client hint headers
Varied(ua, addr, k) ==
  [Http(ua, addr) EXCEPT
     !.xScreenResolution = IF k >= 1 THEN "1920x1080" ELSE "",
     !.xColorDepth = IF k >= 2 THEN "24" ELSE "",
     !.xPixelRatio = IF k >= 3 THEN "2" ELSE "",
     !.xHardwareConcurrency = IF k >= 4 THEN "8" ELSE "",
     !.xTimezone = IF k >= 5 THEN "Asia/Kolkata" ELSE ""]

\* the request as it arrives through a proxy that sets X-Forwarded-For and
\* X-Real-IP ("" when absent)
Via(req, forwardedFor, realIp) ==
  [userAgent |-> req.userAgent, secChUaPlatform |-> req.secChUaPlatform,
   xPlatform |-> req.xPlatform, acceptLanguage |-> req.acceptLanguage,
   xLanguage |-> req.xLanguage, xLanguages |-> req.xLanguages,
   xScreenResolution |-> req.xScreenResolution,
   xColorDepth |-> req.xColorDepth, xPixelRatio |-> req.xPixelRatio,
   xHardwareConcurrency |-> req.xHardwareConcurrency,
   xMaxTouchPoints |-> req.xMaxTouchPoints, xTimezone |-> req.xTimezone,
   ip |-> req.ip, xForwardedFor |-> forwardedFor, xRealIp |-> realIp]

HomeRequests ==
  {Via(Varied(ua, IPNames[1], k), "", "") : ua \in UserAgents, k \in Variations}

AwayRequests ==
  {Via(Varied(ua, IPNames[Len(IPNames)], k), proxy, proxy) :
     ua \in UserAgents, k \in Variations, proxy \in ProxyAddresses}

DeviceNext ==
  \E p \in Procs :
     \/ \E uid \in UserIds \ {AdminId}, req \in HomeRequests, t \in Now :
           Calm /\ RegisterInsert(p, uid, req, t)
     \/ RegisterSave(p)
     \/ \E uid \in UserIds \ {AdminId}, pw \in BOOLEAN, req \in AwayRequests,
           t \in Now :
           Calm /\ LoginFind(p, uid, pw, req, t)
     \/ LoginSave(p)
     \/ \E uid \in UserIds \ {AdminId}, req \in HomeRequests, t \in Now :
           Calm /\ RegisterDeviceFind(p, uid, req, t)
     \/ RegisterDeviceSave(p)

DeviceSpec == Init /\ [][DeviceNext]_vars

\* the logins from away that the registry of user does not know and that
\* are less than 80% similar to the device of every record
Strangers(uid, user) ==
  {req \in AwayRequests :
     /\ ~isDeviceRegistered(user, generateDeviceId(uid, req))
     /\ \A i \in 1..Len(user.registeredDevices) :
           SimilarityTo(user.registeredDevices[i], req) < 80}

\* C21: for a non-admin user with a non-empty registry, a login from a
\* device that is not registered and whose similarity to every registered
\* record is below 80 (5 of 10 keys differing: 50) is answered
\* NEEDS_REVIEW: the login is refused, no token is issued and no device is
\* registered.
C21_StrangerNeedsReview ==
  [][\A p \in Procs :
        LoginBegins(p) =>
          \A uid \in UserIds \ {AdminId} :
             (uid \in DOMAIN users /\ users[uid].registeredDevices # <<>>) =>
               \A req \in Strangers(uid, users[uid]) :
                  LoginStarts(p, uid, req)
                  => /\ res' = Response("login", 403, "NEEDS_REVIEW")
                     /\ procs'[p] = Idle
                     /\ users' = users /\ tokens' = tokens]_vars

\* a login has just been answered NEEDS_REVIEW for a user all of whose
\* unregistered browsers are less than 80% similar to every registered
\* device, one of them 50%
C21_Witness ==
  /\ res = Response("login", 403, "NEEDS_REVIEW")
  /\ \E uid \in DOMAIN users \ {AdminId} :
        /\ users[uid].registeredDevices # <<>>
        /\ \A req \in AwayRequests :
              isDeviceRegistered(users[uid], generateDeviceId(uid, req))
              \/ req \in Strangers(uid, users[uid])
        /\ \E req \in Strangers(uid, users[uid]) :
              SimilarityTo(users[uid].registeredDevices[1], req) = 50

----------------------------------------------------------------------------
(* compareDeviceFingerprints called on its own, on vectors of the ten      *)
(* stable attributes and on stored deviceInfo objects                      *)

\* the values an attribute takes
Values == {"a", "b"}

StableKeySet == {stableKeys[i] : i \in 1..Len(stableKeys)}

\* the vectors of the ten stable attributes
Vectors == [StableKeySet -> Values]

\* the deviceInfo objects: two of their keys are stable attributes
Infos == [{"userAgent", "platform", "ipAddress"} -> Values]

\* the first argument: the vectors that vary in the first two keys
FirstArguments ==
  {v \in Vectors : \A i \in 3..Len(stableKeys) : v[stableKeys[i]] = "a"}

SecondArguments == Vectors \cup Infos

\* a function has been called on its own: its name, its arguments and the
\* value it returned
Returned(fn, args, value) == [op |-> fn, kind |-> args, code |-> value]

\* one call in a behaviour
Compare(a, b) ==
  /\ res = NoResponse
  /\ res' = Returned("compareDeviceFingerprints", <<a, b>>,
                     compareDeviceFingerprints(a, b))
  /\ UNCHANGED <<users, requests, tokens, procs>>

CompareNext == \E a \in FirstArguments, b \in SecondArguments : Compare(a, b)

CompareSpec == Init /\ [][CompareNext]_vars

\* the stable keys in which two objects differ
Differing(a, b) == {key \in StableKeySet : Prop(a, key) # Prop(b, key)}

\* C22: compareDeviceFingerprints returns similarity 80 and isSimilar true
\* for two vectors that differ in exactly 2 of the ten stable keys,
\* similarity 70 and isSimilar false for two that differ in exactly 3;
\* isSimilar holds if and only if at most 2 of the 10 keys differ.
C22_ThresholdBoundary ==
  res.op = "compareDeviceFingerprints" =>
    LET d == Cardinality(Differing(res.kind[1], res.kind[2]))
    IN /\ d = 2 => res.code.similarity = 80 /\ res.code.isSimilar
       /\ d = 3 => res.code.similarity = 70 /\ ~res.code.isSimilar
       /\ res.code.isSimilar <=> d <= 2
       /\ res.code.total = 10 /\ res.code.matches = 10 - d

\* two vectors that differ in exactly two keys have been found similar
C22_Witness ==
  /\ res.op = "compareDeviceFingerprints"
  /\ res.kind[1] \in Vectors /\ res.kind[2] \in Vectors
  /\ Cardinality(Differing(res.kind[1], res.kind[2])) = 2
  /\ res.code.similarity = 80 /\ res.code.isSimilar

\* C23: compareDeviceFingerprints is symmetric: compare(a, b) and
\* compare(b, a) have the same matches, total, similarity and isSimilar and
\* list the same mismatched keys, with value1 and value2 swapped.
C23_Symmetric ==
  res.op = "compareDeviceFingerprints" =>
    LET ab == res.code
        ba == compareDeviceFingerprints(res.kind[2], res.kind[1])
    IN /\ ab.matches = ba.matches /\ ab.total = ba.total
       /\ ab.similarity = ba.similarity /\ ab.isSimilar = ba.isSimilar
       /\ Len(ab.differences) = Len(ba.differences)
       /\ \A i \in 1..Len(ab.differences) :
             \E j \in 1..Len(ba.differences) :
                /\ ba.differences[j].key = ab.differences[i].key
                /\ ba.differences[j].value1 = ab.differences[i].value2
                /\ ba.differences[j].value2 = ab.differences[i].value1

\* a vector has been compared with a deviceInfo object that lacks eight of
\* the keys and differs in a ninth
C23_Witness ==
  /\ res.op = "compareDeviceFingerprints"
  /\ res.kind[1] \in Vectors /\ res.kind[2] \in Infos
  /\ res.code.matches = 1
  /\ \E i \in 1..Len(res.code.differences) :
        /\ res.code.differences[i].value1 = "a"
        /\ res.code.differences[i].value2 = Undefined

----------------------------------------------------------------------------
(* The device id and the address of the request *)

\* the headers the stable attributes are read from
StableHeaders ==
  {"userAgent", "secChUaPlatform", "xPlatform", "acceptLanguage", "xLanguage",
   "xLanguages", "xScreenResolution", "xColorDepth", "xPixelRatio",
   "xHardwareConcurrency", "xMaxTouchPoints", "xTimezone"}

\* two requests of one browser: they differ at most in the peer address,
\* X-Forwarded-For and X-Real-IP
SameBrowser(req1, req2) == \A h \in StableHeaders : req1[h] = req2[h]

----------------------------------------------------------------------------
(* Logins after an eviction *)

\* an approval has replaced device A of the user: an approved request
\* names A as the device to be replaced by another one, and the registry
\* has no record of A
Evicted(uid, A) ==
  /\ users[uid].role # "admin"
  /\ ~isDeviceRegistered(users[uid], A)
  /\ \E i \in 1..Len(requests) :
        /\ requests[i].user = uid /\ requests[i].status = "approved"
        /\ requests[i].currentDeviceId = A /\ requests[i].newDeviceId # A

\* C25: a login of a non-admin user with a non-empty registry succeeds only
\* if the deviceId of the fingerprint is in the user's registeredDevices
\* or the IP rebind rule applies; once an approval has evicted device A in
\* favour of device B, a login from A is refused with NEEDS_REVIEW until A
\* is approved again: A gets back into the registry by an approval only.
C25_EvictedUntilApproved ==
  [][/\ \A p \in Procs :
          LoginBegins(p) =>
            \A uid \in UserIds \ {AdminId} : \A req \in LoginBrowsersOf(uid) :
               (LoginStarts(p, uid, req) /\ users[uid].registeredDevices # <<>>)
               => /\ Decided(p) \in {"LOGIN_OK", "IP_REBIND", "NEEDS_REVIEW"}
                  /\ Decided(p) = "LOGIN_OK"
                     => isDeviceRegistered(users[uid], generateDeviceId(uid, req))
                  /\ Decided(p) = "IP_REBIND" => SomeSimilar(users[uid], req)
                  /\ Evicted(uid, generateDeviceId(uid, req))
                     => res' = Response("login", 403, "NEEDS_REVIEW")
     /\ \A uid \in DOMAIN users, A \in DeviceIds :
          (Evicted(uid, A) /\ Added(uid, A))
          => res' = Response("approve", 200, "approved")]_vars

----------------------------------------------------------------------------
(* The stored requests as an audit trail *)

\* C26: change requests are never deleted: the stored request ids only
\* grow, and once a request is approved or rejected none of its fields
\* changes again.
C26_AuditTrail ==
  [][/\ Len(requests') >= Len(requests)
     /\ \A rid \in 1..Len(requests) :
           Terminal(rid) => requests'[rid] = requests[rid]]_vars

----------------------------------------------------------------------------
(* Who changes a request *)

\* an approve or a reject called by actor starts in slot p
ReviewStarts(p, actor) ==
  \E rid \in RequestIds, notes \in AdminNotes, reason \in Reasons, t \in Times :
     \/ ApproveFind(p, actor, rid, notes, t)
     \/ RejectFind(p, actor, rid, notes, reason, t)

\* C27: a stored change request is changed only by an approve or a reject
\* of an authenticated caller whose role is admin; an approve or a reject
\* attempted by a caller that is not an admin is refused and leaves the
\* requests and every user's registry unchanged.
C27_OnlyAdminReviews ==
  [][/\ \A p \in Procs, actor \in UserIds :
          (/\ procs[p].op = "idle"
           /\ ~(verifyToken(actor) /\ users[actor].role = "admin")
           /\ ReviewStarts(p, actor))
          => /\ res'.code \in {401, 403}
             /\ procs'[p] = Idle
             /\ requests' = requests /\ users' = users
     /\ \A rid \in 1..Len(requests) :
          requests'[rid] # requests[rid]
          => \E p \in Procs :
                /\ procs[p].op \in {"approve", "reject"}
                /\ procs[p].rid = rid
                /\ procs[p].actor \in DOMAIN users
                /\ users[procs[p].actor].role = "admin"
                /\ procs[p].actor \in tokens
                /\ procs'[p].pc # "saveRequest"]_vars

\* an authenticated user that is not an admin has just been refused an
\* approve or a reject of a stored pending request
C27_Witness ==
  /\ res.op \in {"approve", "reject"} /\ res.code = 403
  /\ \E rid \in 1..Len(requests) : requests[rid].status = "pending"
  /\ \E uid \in tokens : users[uid].role # "admin"

----------------------------------------------------------------------------
(* An approve that fails between its two saves *)

\* the approve of slot p fails at the save of the user, after its save of
\* the request
ApproveFails(p) == ApproveSaveUser(p) /\ res' = Response("approve", 500, "")

\* C28: if approve fails after the status of the request has been written
\* as approved and before the registry of the user has been updated, the
\* system stays recoverable: it does not end in a state where the request
\* is approved, the registry of the user lacks newDeviceId and every retry
\* of approve is refused as already processed.
C28_FailedApproveRecoverable ==
  [][\A p \in Procs :
        ApproveFails(p) =>
          LET request == requests'[procs[p].rid]
          IN ~(/\ request.status = "approved"
               /\ ~isDeviceRegistered(users'[request.user], request.newDeviceId)
               /\ alreadyProcessed(request))]_vars

----------------------------------------------------------------------------
(* The creation of a change request *)

\* C29: the creation of a change request fails, adding no request, when
\* newDeviceId is in the registeredDevices of the user; when it succeeds
\* exactly one request is added, with status pending, newDeviceId the
\* candidate device and currentDeviceId the currentDeviceId of the user
\* (of the user document the handler has read when it checked the
\* device), or 'none' when the user has none, and the registry of the user
\* is unchanged.
C29_CreateContract ==
  [][\A p \in Procs :
        /\ (procs[p].op = "idle" /\ res'.op \in {"requestChange", "requestChangeUnauth"})
           => \A uid \in DOMAIN users : \A req \in HttpRequests :
                 (/\ isDeviceRegistered(users[uid], generateDeviceId(uid, req))
                  /\ CreateStarts(p, uid, req))
                 => /\ res'.code = 400 /\ res'.kind = "already registered"
                    /\ requests' = requests /\ users' = users
        /\ (procs[p].op = "idle" /\ procs'[p].pc = "findPending")
           => \A uid \in DOMAIN users : \A req \in HttpRequests :
                 CreateStarts(p, uid, req)
                 => /\ ~isDeviceRegistered(users[uid], generateDeviceId(uid, req))
                    /\ procs'[p].uid = uid /\ procs'[p].doc = users[uid]
                    /\ procs'[p].deviceId = generateDeviceId(uid, req)
                    /\ requests' = requests /\ users' = users
        /\ (procs[p].pc = "insert" /\ CreateInsert(p))
           => /\ Created(p)
              /\ requests'[Len(requests')].currentDeviceId =
                   IF procs[p].doc.currentDeviceId # Null
                   THEN procs[p].doc.currentDeviceId ELSE None
              /\ users' = users]_vars

\* a request has just been created for a user that has no current device:
\* it stores 'none'
C29_Witness ==
  /\ res.code = 201 /\ res.kind = "created"
  /\ requests # <<>>
  /\ Last(requests).status = "pending"
  /\ Last(requests).currentDeviceId = None
  /\ users[Last(requests).user].currentDeviceId = Null

----------------------------------------------------------------------------
(* The outcome of approve and reject *)

----------------------------------------------------------------------------
(* Requests with reasons and notes: a user files change requests with or   *)
(* without a reason, an administrator rejects them with or without one.    *)
(* One handler at a time.                                                  *)

\* req.body.reason of a creation, "" when absent
FiledReasons == {"", "lost my phone"}

\* req.body.reason of a reject, "" when absent
GivenReasons == {"", "not this user"}

\* req.body.adminNotes of a reject
GivenNotes == {"checked", "called the user"}

ReviewNext ==
  \E p \in Procs :
     \/ \E uid \in UserIds \ {AdminId}, t \in Now :
           Calm /\ RegisterInsert(p, uid, Http(AgentNames[1], IPNames[1]), t)
     \/ RegisterSave(p)
     \/ \E req \in BrowsersOf(AdminId), t \in Now :
           Calm /\ LoginFind(p, AdminId, TRUE, req, t)
     \/ LoginSave(p)
     \/ \E uid \in UserIds \ {AdminId} :
           \E req \in BrowsersOf(uid), reason \in FiledReasons :
           /\ Calm /\ Room(SerialMaxRequests)
           /\ RequestChangeUnauthFind(p, uid, TRUE, generateDeviceId(uid, req),
                                      deviceInfoOf(req), reason)
     \/ CreateFindPending(p)
     \/ CreateInsert(p)
     \/ \E actor \in UserIds, rid \in SerialRequestIds, notes \in GivenNotes,
           reason \in GivenReasons, t \in Now :
           Calm /\ RejectFind(p, actor, rid, notes, reason, t)
     \/ RejectSaveRequest(p)

ReviewSpec == Init /\ [][ReviewNext]_vars

\* a reject of request rid by an administrator, with these notes and this
\* reason in its body, starts in slot p
RejectStarts(p, actor, rid, notes, reason) ==
  \E t \in SerialTimes : RejectFind(p, actor, rid, notes, reason, t)

\* C31: a successful reject sets the status to rejected and records
\* reviewedAt, reviewedBy (the acting admin) and adminNotes; the stored
\* reason is replaced by the reason supplied when one is given and is kept
\* when none is given.
C31_RejectRecords ==
  [][\A p \in Procs :
        /\ procs[p].op = "idle" =>
             \A actor \in UserIds, rid \in SerialRequestIds,
                notes \in GivenNotes, reason \in GivenReasons :
                (/\ rid <= Len(requests) /\ requests[rid].status = "pending"
                 /\ Admin(actor)
                 /\ RejectStarts(p, actor, rid, notes, reason))
                => /\ GoesOn(p, "saveRequest")
                   /\ procs'[p].actor = actor /\ procs'[p].rid = rid
                   /\ procs'[p].notes = notes
                   /\ procs'[p].at \in Now
                   /\ procs'[p].reason =
                        IF reason # "" THEN reason ELSE requests[rid].reason
        /\ (procs[p].op = "reject" /\ RejectSaveRequest(p))
           => /\ res' = Response("reject", 200, "rejected")
              /\ requests' = [requests EXCEPT ![procs[p].rid] =
                    [@ EXCEPT !.status = "rejected",
                              !.reviewedAt = procs[p].at,
                              !.reviewedBy = procs[p].actor,
                              !.adminNotes = procs[p].notes,
                              !.reason = procs[p].reason]]
              /\ requests'[procs[p].rid].reviewedAt # NoDate
              /\ requests'[procs[p].rid].reviewedBy # NoReviewer]_vars

\* two requests filed with the reason "lost my phone" have been rejected,
\* the first without a reason, which kept the stored one, the second with
\* a reason, which replaced it
C31_Witness ==
  /\ res = Response("reject", 200, "rejected")
  /\ Len(requests) = 2
  /\ requests[1].status = "rejected" /\ requests[2].status = "rejected"
  /\ requests[1].reason = "lost my phone"
  /\ requests[2].reason = "not this user"
  /\ requests[1].reviewedBy = AdminId /\ requests[2].reviewedBy = AdminId
  /\ requests[2].adminNotes = "called the user"

----------------------------------------------------------------------------
(* C36: in every reachable state a change request has reviewedAt and
   reviewedBy set exactly when its status is approved or rejected; a pending
   request has neither *)

Reviewed(request) == request.status \in {"approved", "rejected"}

C36_ReviewedIffTerminal ==
  \A rid \in 1..Len(requests) :
     /\ Reviewed(requests[rid]) <=> requests[rid].reviewedAt # NoDate
     /\ Reviewed(requests[rid]) <=> requests[rid].reviewedBy # NoReviewer
     /\ requests[rid].status \in {"pending", "approved", "rejected"}

\* a request approved by one handler while another still holds it for reject
C36_Witness ==
  \E rid \in 1..Len(requests) : \E p \in Procs :
     /\ requests[rid].status = "approved"
     /\ requests[rid].reviewedBy = AdminId
     /\ requests[rid].reviewedAt # NoDate
     /\ procs[p].op = "reject" /\ procs[p].pc = "saveRequest" /\ procs[p].rid = rid

----------------------------------------------------------------------------
(* C37: for every pair of inputs compareDeviceFingerprints returns total = 10
   and matches + the number of entries of differences = 10; each of the ten
   stable keys is counted exactly once, as a match or as a difference that
   carries both values, and similarity = matches * 10 *)

C37_EveryKeyCountedOnce ==
  res.op = "compareDeviceFingerprints" =>
    LET a == res.kind[1]
        b == res.kind[2]
        out == res.code
        listed == {out.differences[i].key : i \in 1..Len(out.differences)}
    IN /\ out.total = 10
       /\ out.matches + Len(out.differences) = 10
       /\ Cardinality(listed) = Len(out.differences)
       /\ listed = Differing(a, b)
       /\ out.matches = Cardinality(StableKeySet \ Differing(a, b))
       /\ out.similarity = out.matches * 10
       /\ \A i \in 1..Len(out.differences) :
             /\ out.differences[i].value1 = Prop(a, out.differences[i].key)
             /\ out.differences[i].value2 = Prop(b, out.differences[i].key)

\* a vector compared with a deviceInfo: one key matches, eight are listed
\* with the second value undefined and one with two different values
C37_Witness ==
  /\ res.op = "compareDeviceFingerprints"
  /\ res.code.matches = 1
  /\ Len(res.code.differences) = 9
  /\ Cardinality({i \in 1..9 : res.code.differences[i].value2 = Undefined}) = 8

----------------------------------------------------------------------------
(* C35: the similarity detectIPChange computes between the stable
   attributes of a login and any stored device record is at most 20: the
   deviceInfo of a record holds userAgent, ipAddress and platform only, so
   the other eight stable keys never compare equal; hence in no reachable
   state a login takes the IP_REBIND branch *)

\* the similarity detectIPChange computes for req and a stored record
InfoSimilarity(record, req) ==
  compareDeviceFingerprints(stableFingerprint(req), record.deviceInfo).similarity

\* the keys detectIPChange finds different for req and a stored record
InfoDifferences(record, req) ==
  LET d == compareDeviceFingerprints(stableFingerprint(req),
                                     record.deviceInfo).differences
  IN {d[i].key : i \in 1..Len(d)}

C35_NoRebindEver ==
  /\ \A uid \in DOMAIN users : \A i \in 1..Len(users[uid].registeredDevices) :
        LET record == users[uid].registeredDevices[i]
        IN /\ DOMAIN record.deviceInfo = {"userAgent", "platform", "ipAddress"}
           /\ \A req \in HomeRequests \cup AwayRequests :
                 /\ InfoSimilarity(record, req) <= 20
                 /\ StableKeySet \ {"userAgent", "platform"}
                       \subseteq InfoDifferences(record, req)
                 /\ detectIPChange(stableFingerprint(req),
                                   users[uid].registeredDevices) = 0
  /\ res = NoResponse \/ res.kind # "IP_REBIND"
  /\ \A p \in Procs : procs[p].kind # "IP_REBIND"

\* a login has been answered NEEDS_REVIEW for a user each of whose
\* unregistered browsers has the userAgent and the platform of a registered
\* device: the similarity computed is 20, the most there is
C35_Witness ==
  /\ res = Response("login", 403, "NEEDS_REVIEW")
  /\ \E uid \in DOMAIN users \ {AdminId} :
        /\ \E req \in AwayRequests :
              ~isDeviceRegistered(users[uid], generateDeviceId(uid, req))
        /\ \A req \in AwayRequests :
              \/ isDeviceRegistered(users[uid], generateDeviceId(uid, req))
              \/ \E i \in 1..Len(users[uid].registeredDevices) :
                    InfoSimilarity(users[uid].registeredDevices[i], req) = 20

----------------------------------------------------------------------------
(* C33: when a user with a registered device logs in with valid credentials
   from a device that is not registered, the login itself creates a device
   change request for that device: the step that answers the login
   NEEDS_REVIEW appends one pending request of that user whose newDeviceId
   is not in the user's registry *)

C33_LoginFilesRequest ==
  [][res' = Response("login", 403, "NEEDS_REVIEW")
       => /\ Len(requests') = Len(requests) + 1
          /\ Last(requests').status = "pending"
          /\ Last(requests').user \in DOMAIN users
          /\ ~isDeviceRegistered(users[Last(requests').user],
                                 Last(requests').newDeviceId)]_vars

----------------------------------------------------------------------------
(* C34: after a successful account registration the registry of the new
   user holds exactly one record, of the deviceId of the registering
   request, and currentDeviceId is that deviceId, so that a login from the
   same fingerprint is decided LOGIN_OK *)

C34_RegistrationBindsOne ==
  [][\A p \in Procs :
        (procs[p].op = "register" /\ RegisterSave(p) /\ res'.code = 201)
        => LET user == users'[procs[p].uid]
           IN /\ Len(user.registeredDevices) = 1
              /\ user.registeredDevices[1].deviceId = Pushed(p)
              /\ user.currentDeviceId = Pushed(p)
              /\ isDeviceRegistered(user, Pushed(p))]_vars

----------------------------------------------------------------------------
(* Two accounts side by side: their handlers and those of the administrator
   interleave *)

PairMaxRequests == 2

\* the two accounts and the administrator
PairUserIds == {UserNames[1], UserNames[2], AdminId}

PairRequestIds == 1..PairMaxRequests

\* the account a handler in flight works for: the owner of the request for
\* approve and reject
Subject(q) ==
  IF procs[q].op \in {"approve", "reject"} THEN requests[procs[q].rid].user
  ELSE procs[q].uid

\* no handler in flight works for uid: the handlers that interleave are
\* those of different accounts
Apart(uid) == \A q \in Procs : procs[q].op # "idle" => Subject(q) # uid

\* the browser an account registers with, and the one it changes to
PairOld == Http(AgentNames[1], IPNames[1])
PairNew == Http(AgentNames[2], IPNames[1])

PairNext ==
  \E p \in Procs :
     \/ \E rid \in PairRequestIds, notes \in AdminNotes, t \in Times :
           /\ rid <= Len(requests) /\ Apart(requests[rid].user)
           /\ ApproveFind(p, AdminId, rid, notes, t)
     \/ ApproveSaveRequest(p)
     \/ \E t \in Times : ApproveFindUser(p, t)
     \/ ApproveSaveUser(p)
     \/ \E rid \in PairRequestIds, notes \in AdminNotes, reason \in Reasons,
           t \in Times :
           /\ rid <= Len(requests) /\ Apart(requests[rid].user)
           /\ RejectFind(p, AdminId, rid, notes, reason, t)
     \/ RejectSaveRequest(p)
     \/ \E uid \in PairUserIds \ {AdminId}, t \in Times :
           Apart(uid) /\ RegisterInsert(p, uid, PairOld, t)
     \/ RegisterSave(p)
     \/ \E uid \in PairUserIds : \E req \in BrowsersOf(uid), t \in Times :
           Apart(uid) /\ LoginFind(p, uid, TRUE, req, t)
     \/ LoginSave(p)
     \/ \E uid \in PairUserIds \ {AdminId}, t \in Times :
           Apart(uid) /\ RegisterDeviceFind(p, uid, PairNew, t)
     \/ RegisterDeviceSave(p)
     \/ \E uid \in PairUserIds \ {AdminId}, reason \in Reasons :
           /\ Apart(uid) /\ Room(PairMaxRequests)
           /\ RequestChangeUnauthFind(p, uid, TRUE, generateDeviceId(uid, PairNew),
                                      deviceInfoOf(PairNew), reason)
     \/ CreateFindPending(p)
     \/ CreateInsert(p)

PairSpec == Init /\ [][PairNext]_vars

\* the account the step of slot p works for
Owner(p) ==
  IF procs[p].op # "idle" THEN Subject(p)
  ELSE IF procs'[p].op \in {"approve", "reject"}
       THEN requests[procs'[p].rid].user
       ELSE procs'[p].uid

\* the step leaves alone the registry of every account but uid and every
\* change request of another owner; the requests it adds are owned by uid
OthersKept(uid) ==
  /\ \A other \in DOMAIN users \ {uid} :
        /\ other \in DOMAIN users'
        /\ users'[other].registeredDevices = users[other].registeredDevices
        /\ users'[other].currentDeviceId = users[other].currentDeviceId
  /\ Len(requests') >= Len(requests)
  /\ \A rid \in 1..Len(requests) :
        requests[rid].user # uid => requests'[rid] = requests[rid]
  /\ \A rid \in (Len(requests) + 1)..Len(requests') : requests'[rid].user = uid

\* C32: operations of different users are independent: a login, a
\* register-device or a request creation by user U, and an approve or a
\* reject of a request owned by U, never change registeredDevices or
\* currentDeviceId of any other user, nor a change request owned by another
\* user.
C32_UsersIndependent ==
  [][/\ \A p \in Procs : procs'[p] # procs[p] => OthersKept(Owner(p))
     /\ procs' = procs => users' = users /\ requests' = requests]_vars

\* the request of the first account has been approved and its registry
\* changed while a login of the second account, whose own request is
\* pending, is in flight; the registry of the second account is as
\* registered
C32_Witness ==
  /\ res = Response("approve", 200, "approved")
  /\ UserNames[1] \in DOMAIN users /\ UserNames[2] \in DOMAIN users
  /\ users[UserNames[1]].currentDeviceId = generateDeviceId(UserNames[1], PairNew)
  /\ Len(users[UserNames[2]].registeredDevices) = 1
  /\ users[UserNames[2]].currentDeviceId = generateDeviceId(UserNames[2], PairOld)
  /\ \E rid \in 1..Len(requests) :
        requests[rid].user = UserNames[2] /\ requests[rid].status = "pending"
  /\ \E q \in Procs : procs[q].op = "login" /\ procs[q].uid = UserNames[2]

----------------------------------------------------------------------------
(* POST /users/:userId/toggle-status *)

\* router.use(verifyToken, requireAdmin), findById(userId) and the
\* assignment user.isActive = req.body.isActive; mode records whether the
\* assignment modified the document read
ToggleStatusFind(p, actor, uid, isActive) ==
  /\ Free(p)
  /\ UNCHANGED <<users, requests, tokens>>
  /\ IF ~verifyToken(actor) THEN Finish(p, "toggleStatus", 401, "")
     ELSE IF ~requireAdmin(actor) THEN Finish(p, "toggleStatus", 403, "")
     ELSE IF uid \notin DOMAIN users THEN Finish(p, "toggleStatus", 404, "not found")
     ELSE /\ procs' = [procs EXCEPT ![p] =
                [Idle EXCEPT !.op = "toggleStatus", !.pc = "saveStatus",
                             !.actor = actor, !.uid = uid,
                             !.doc = [users[uid] EXCEPT !.isActive = isActive],
                             !.mode = IF users[uid].isActive = isActive
                                      THEN "none" ELSE "status"]]
          /\ res' = NoResponse

\* await user.save(): isActive is $set when it was modified, nothing is
\* written otherwise; then the response
ToggleStatusSave(p) ==
  /\ procs[p].op = "toggleStatus" /\ procs[p].pc = "saveStatus"
  /\ users' = IF procs[p].mode = "status"
              THEN [users EXCEPT ![procs[p].uid].isActive = procs[p].doc.isActive]
              ELSE users
  /\ Finish(p, "toggleStatus", 200,
            IF procs[p].doc.isActive THEN "activated" ELSE "deactivated")
  /\ UNCHANGED <<requests, tokens>>

\* the server with the accounts being deactivated and activated
StatusNext ==
  \E p \in Procs :
     \/ \E uid \in UserIds \ {AdminId}, t \in Times :
           RegisterInsert(p, uid, Http(AgentNames[1], IPNames[1]), t)
     \/ RegisterSave(p)
     \/ \E uid \in UserIds : \E req \in BrowsersOf(uid), t \in Times :
           LoginFind(p, uid, TRUE, req, t)
     \/ LoginSave(p)
     \/ \E actor \in UserIds, uid \in UserIds, isActive \in BOOLEAN :
           ToggleStatusFind(p, actor, uid, isActive)
     \/ ToggleStatusSave(p)
     \/ \E uid \in UserIds : \E req \in BrowsersOf(uid), reason \in Reasons :
           Room(MaxRequests) /\ RequestChangeFind(p, uid, req, reason)
     \/ \E uid \in UserIds : \E req \in BrowsersOf(uid), reason \in Reasons :
           /\ Room(MaxRequests)
           /\ RequestChangeUnauthFind(p, uid, TRUE, generateDeviceId(uid, req),
                                      deviceInfoOf(req), reason)
     \/ CreateFindPending(p)
     \/ CreateInsert(p)

StatusSpec == Init /\ [][StatusNext]_vars

\* the account exists and its isActive flag is false
Inactive(uid) == uid \in DOMAIN users /\ ~users[uid].isActive

\* the handler that starts in slot p answers 401 at once and writes nothing
Refused(p, op) ==
  /\ res' = Response(op, 401, "")
  /\ procs'[p] = Idle
  /\ users' = users /\ requests' = requests /\ tokens' = tokens

\* C38: while the isActive flag of a user is false, every login and every
\* creation of a change request by that user is refused, whatever the
\* device and the role, and changes neither the registry of the user nor
\* the set of change requests; toggling the flag never changes
\* registeredDevices or currentDeviceId.
C38_InactiveRefused ==
  [][\A p \in Procs :
        /\ \A uid \in UserIds :
              Inactive(uid) =>
                \A req \in HttpRequests :
                   /\ \A pw \in BOOLEAN, t \in Times :
                         LoginFind(p, uid, pw, req, t) => Refused(p, "login")
                   /\ \A reason \in Reasons :
                         RequestChangeFind(p, uid, req, reason)
                         => Refused(p, "requestChange")
                   /\ \A pw \in BOOLEAN, reason \in Reasons :
                         RequestChangeUnauthFind(p, uid, pw,
                             generateDeviceId(uid, req), deviceInfoOf(req), reason)
                         => Refused(p, "requestChangeUnauth")
        /\ \A actor \in UserIds, uid \in UserIds, isActive \in BOOLEAN :
              ToggleStatusFind(p, actor, uid, isActive) => users' = users
        /\ ToggleStatusSave(p)
           => /\ DOMAIN users' = DOMAIN users
              /\ requests' = requests
              /\ \A uid \in DOMAIN users :
                    /\ users'[uid].registeredDevices = users[uid].registeredDevices
                    /\ users'[uid].currentDeviceId = users[uid].currentDeviceId
                    /\ users'[uid].role = users[uid].role]_vars

\* a login of a deactivated account that holds a registered device and a
\* token has just been refused, the administrator being active
C38_Witness ==
  /\ res = Response("login", 401, "")
  /\ users[AdminId].isActive
  /\ \E uid \in DOMAIN users \ {AdminId} :
        /\ ~users[uid].isActive
        /\ uid \in tokens
        /\ users[uid].registeredDevices # <<>>
        /\ users[uid].currentDeviceId # Null

====
